---------------------------- MODULE Spec2Model ----------------------------
(***************************************************************************)
(* A model of portunus (src/main.go): a vault of named secrets kept as a   *)
(* JSON object in one backing file.                                        *)
(*                                                                         *)
(* Go strings are modelled as sequences of one-character strings.  Two     *)
(* characters stand for more than themselves:                              *)
(*   "X"  one byte that is not valid UTF-8 (for instance 0xFF),            *)
(*   "R"  the rune U+FFFD, the Unicode replacement character.              *)
(* The backing file is a sequence of the same characters.                  *)
(***************************************************************************)
EXTENDS Integers, Sequences, FiniteSets, TLC

VARIABLES
    fileExists,   \* whether vaultFile exists on disk
    fileData,     \* its content (a sequence of characters); <<>> when absent
    vlt,          \* per caller / process: the *vault it holds
    ret,          \* per caller: what its last call of the vault API returned
    pristine,     \* history: the file is as a successful newVault left it
    lastSaved,    \* history: the vault the last successful saveVault wrote
    proc,         \* per process running main: position, arguments, exit status
    thr,          \* per thread sharing one vault: position inside its method
    lock,         \* vault.lock of the shared vault: the thread holding it, or ""
    shared        \* the vault the threads share

vars == <<fileExists, fileData, vlt, ret, pristine, lastSaved, proc, thr, lock, shared>>

-----------------------------------------------------------------------------
(* Bounds of the model. *)

\* A failed write leaves at most this many bytes of the new content behind.
MaxPartial == 2

-----------------------------------------------------------------------------
(* Strings. *)

RECURSIVE Concat(_)
\* The concatenation of a sequence of strings.
Concat(ss) == IF ss = <<>> THEN <<>> ELSE Head(ss) \o Concat(Tail(ss))

\* base64.RawURLEncoding's alphabet (encoding/base64: encodeURL).
Base64Alphabet ==
    << "A","B","C","D","E","F","G","H","I","J","K","L","M","N","O","P",
       "Q","R","S","T","U","V","W","X","Y","Z","a","b","c","d","e","f",
       "g","h","i","j","k","l","m","n","o","p","q","r","s","t","u","v",
       "w","x","y","z","0","1","2","3","4","5","6","7","8","9","-","_" >>

\* The first byte of a character of a name, which is what sort.Strings and
\* json.Marshal's key order compare.  The names of the model are made of
\* these characters only.
Byte(c) ==
    CASE c = "\"" -> 34
      [] c = "<"  -> 60
      [] c = "\\" -> 92
      [] c = "a"  -> 97
      [] c = "b"  -> 98
      [] c = "R"  -> 239
      [] c = "X"  -> 255

RECURSIVE StrLess(_, _)
\* s < t for Go strings: bytewise lexicographic order.
StrLess(s, t) ==
    IF t = <<>> THEN FALSE
    ELSE IF s = <<>> THEN TRUE
    ELSE IF Head(s) = Head(t) THEN StrLess(Tail(s), Tail(t))
    ELSE Byte(Head(s)) < Byte(Head(t))

RECURSIVE SortStrings(_)
\* sort.Strings on the strings of a set: ascending, each once.
SortStrings(S) ==
    IF S = {} THEN <<>>
    ELSE LET least == CHOOSE s \in S : \A t \in S \ {s} : StrLess(s, t)
         IN  <<least>> \o SortStrings(S \ {least})

-----------------------------------------------------------------------------
(* The Go map of a vault: vault.vlt, a map[string]string.  A nil map and an *)
(* empty map differ: reading either finds nothing, writing a nil map        *)
(* panics.                                                                  *)

EmptyMap == [k \in {} |-> <<>>]

\* A store that drops the entry of a name already in the map instead of
\* replacing its value.
MapPut_DropOld(m, name, value) ==
    IF name \in DOMAIN m THEN [k \in DOMAIN m \ {name} |-> m[k]]
    ELSE [k \in DOMAIN m \cup {name} |-> IF k = name THEN value ELSE m[k]]

\* m with m[name] = value.
MapPut(m, name, value) ==
    [k \in DOMAIN m \cup {name} |-> IF k = name THEN value ELSE m[k]]

\* A delete that empties the map.
MapDelete_All(m, name) == [k \in {} |-> <<>>]

\* m after delete(m, name).
MapDelete(m, name) == [k \in DOMAIN m \ {name} |-> m[k]]

\* A *vault: nil, or a vault whose vlt field is a nil map or the map m.
NilVault == [nil |-> TRUE, nilmap |-> TRUE, m |-> EmptyMap]

\* &vault{vlt: make(map[string]string)}
FreshVault == [nil |-> FALSE, nilmap |-> FALSE, m |-> EmptyMap]

-----------------------------------------------------------------------------
(* encoding/json, as saveVault and openVault use it.                        *)

\* One character of a Go string inside a JSON string literal, as
\* json.Marshal writes it: the quote and the backslash are escaped, "<" is
\* written as the escape u003c (Marshal escapes HTML), and a byte that is
\* not valid UTF-8 as the escape ufffd; every other character is written
\* as it is.
EncodeChar(c) ==
    CASE c = "\"" -> <<"\\", "\"">>
      [] c = "\\" -> <<"\\", "\\">>
      [] c = "<"  -> <<"\\", "u", "0", "0", "3", "c">>
      [] c = "X"  -> <<"\\", "u", "f", "f", "f", "d">>
      [] OTHER    -> <<c>>

\* A Go string as a JSON string literal.
EncodeString(s) ==
    <<"\"">> \o Concat([i \in 1..Len(s) |-> EncodeChar(s[i])]) \o <<"\"">>

\* The members of a JSON object, "key":"value" joined by commas, for the
\* keys in the order given.
EncodeMembers(m, keys) ==
    Concat([i \in 1..Len(keys) |->
              (IF i = 1 THEN <<>> ELSE <<",">>)
              \o EncodeString(keys[i]) \o <<":">> \o EncodeString(m[keys[i]])])

\* json.Marshal of a vault's map: null for a nil map, else the object with
\* its keys sorted.
Marshal(v) ==
    IF v.nilmap THEN <<"n", "u", "l", "l">>
    ELSE <<"{">> \o EncodeMembers(v.m, SortStrings(DOMAIN v.m)) \o <<"}">>

\* The character at position i of s, or "" past its end.
At(s, i) == IF i >= 1 /\ i <= Len(s) THEN s[i] ELSE ""

RECURSIVE SkipSpace(_, _)
\* The first position from i on that holds no JSON white space.
SkipSpace(s, i) == IF At(s, i) = " " THEN SkipSpace(s, i + 1) ELSE i

HexDigits ==
    {"0","1","2","3","4","5","6","7","8","9",
     "a","b","c","d","e","f","A","B","C","D","E","F"}

Digits == {"0","1","2","3","4","5","6","7","8","9"}

\* The rune a four-digit unicode escape stands for: the two escapes Marshal
\* writes for the model's characters, and "U" for any other rune.
DecodeEscape(h) ==
    CASE h = <<"f", "f", "f", "d">> -> "R"
      [] h = <<"0", "0", "3", "c">> -> "<"
      [] OTHER -> "U"

\* What a failed scan returns.
ScanFail == [ok |-> FALSE, next |-> 0, kind |-> "", str |-> <<>>, members |-> <<>>]

RECURSIVE ScanString(_, _, _)
\* The JSON string literal whose opening quote is before position i, decoded
\* as json.Unmarshal decodes it (acc: the characters decoded so far): an
\* escape gives its character, and a byte that is not valid UTF-8 gives
\* U+FFFD.  The escapes known are those of the model's characters.
ScanString(s, i, acc) ==
    LET c == At(s, i)
        e == At(s, i + 1)
    IN  IF c = "" THEN ScanFail
        ELSE IF c = "\""
        THEN [ok |-> TRUE, next |-> i + 1, kind |-> "string", str |-> acc,
              members |-> <<>>]
        ELSE IF c = "\\"
        THEN IF e \in {"\"", "\\"}
             THEN ScanString(s, i + 2, Append(acc, e))
             ELSE IF e = "u" /\ \A k \in 2..5 : At(s, i + k) \in HexDigits
             THEN ScanString(s, i + 6,
                             Append(acc, DecodeEscape(SubSeq(s, i + 2, i + 5))))
             ELSE ScanFail
        ELSE IF c = "X" THEN ScanString(s, i + 1, Append(acc, "R"))
        ELSE ScanString(s, i + 1, Append(acc, c))

RECURSIVE ScanDigits(_, _)
\* The first position from i on that holds no digit.
ScanDigits(s, i) == IF At(s, i) \in Digits THEN ScanDigits(s, i + 1) ELSE i

\* Whether the characters of word stand at position i of s.
HasWord(s, i, word) ==
    /\ i + Len(word) - 1 <= Len(s)
    /\ SubSeq(s, i, i + Len(word) - 1) = word

RECURSIVE ScanValue(_, _)
RECURSIVE ScanElements(_, _)
RECURSIVE ScanMembers(_, _, _)

\* The JSON value that starts at position i of s: whether it is well formed,
\* where it ends, its kind, and for a string its text, for an object its
\* members in the order written.
ScanValue(s, i) ==
    LET c == At(s, i)
    IN  CASE c = "\"" -> ScanString(s, i + 1, <<>>)
          [] c = "n" ->
                IF HasWord(s, i, <<"n", "u", "l", "l">>)
                THEN [ok |-> TRUE, next |-> i + 4, kind |-> "null",
                      str |-> <<>>, members |-> <<>>]
                ELSE ScanFail
          [] c = "t" ->
                IF HasWord(s, i, <<"t", "r", "u", "e">>)
                THEN [ok |-> TRUE, next |-> i + 4, kind |-> "bool",
                      str |-> <<>>, members |-> <<>>]
                ELSE ScanFail
          [] c = "f" ->
                IF HasWord(s, i, <<"f", "a", "l", "s", "e">>)
                THEN [ok |-> TRUE, next |-> i + 5, kind |-> "bool",
                      str |-> <<>>, members |-> <<>>]
                ELSE ScanFail
          [] c \in Digits ->
                [ok |-> TRUE,
                 next |-> IF c = "0" THEN i + 1 ELSE ScanDigits(s, i),
                 kind |-> "number", str |-> <<>>, members |-> <<>>]
          [] c = "[" ->
                LET j == SkipSpace(s, i + 1)
                IN  IF At(s, j) = "]"
                    THEN [ok |-> TRUE, next |-> j + 1, kind |-> "array",
                          str |-> <<>>, members |-> <<>>]
                    ELSE ScanElements(s, j)
          [] c = "{" ->
                LET j == SkipSpace(s, i + 1)
                IN  IF At(s, j) = "}"
                    THEN [ok |-> TRUE, next |-> j + 1, kind |-> "object",
                          str |-> <<>>, members |-> <<>>]
                    ELSE ScanMembers(s, j, <<>>)
          [] OTHER -> ScanFail

\* The elements of an array from the element at position i to the closing
\* bracket.
ScanElements(s, i) ==
    LET v == ScanValue(s, i)
        j == SkipSpace(s, v.next)
    IN  IF ~v.ok THEN ScanFail
        ELSE IF At(s, j) = "]"
        THEN [ok |-> TRUE, next |-> j + 1, kind |-> "array", str |-> <<>>,
              members |-> <<>>]
        ELSE IF At(s, j) = "," THEN ScanElements(s, SkipSpace(s, j + 1))
        ELSE ScanFail

\* The members of an object from the key at position i to the closing brace
\* (acc: the members read so far, each its key, and its value's kind and
\* text).
ScanMembers(s, i, acc) ==
    LET k == IF At(s, i) = "\"" THEN ScanString(s, i + 1, <<>>) ELSE ScanFail
        c == SkipSpace(s, k.next)
        v == ScanValue(s, SkipSpace(s, c + 1))
        j == SkipSpace(s, v.next)
        got == Append(acc, [key |-> k.str, kind |-> v.kind, str |-> v.str])
    IN  IF ~k.ok \/ At(s, c) # ":" THEN ScanFail
        ELSE IF ~v.ok THEN ScanFail
        ELSE IF At(s, j) = "}"
        THEN [ok |-> TRUE, next |-> j + 1, kind |-> "object", str |-> <<>>,
              members |-> got]
        ELSE IF At(s, j) = "," THEN ScanMembers(s, SkipSpace(s, j + 1), got)
        ELSE ScanFail

RECURSIVE StoreMembers(_, _)
\* The map after the members of an object are stored into it in order: a
\* string is stored as it is and null as the empty string (the zero value);
\* a later member overwrites an earlier one of the same key.
StoreMembers(m, members) ==
    IF members = <<>> THEN m
    ELSE StoreMembers(MapPut(m, Head(members).key,
                             IF Head(members).kind = "string"
                             THEN Head(members).str ELSE <<>>),
                      Tail(members))

\* json.Unmarshal(data, &v.vlt): the error (TRUE) it returns for text that
\* is not one JSON value or holds a value a map[string]string cannot take,
\* and the vault after it.  A top-level null is no error: it sets the map
\* to nil.
Unmarshal(data, v) ==
    LET val  == ScanValue(data, SkipSpace(data, 1))
        rest == SkipSpace(data, val.next)
        bad  == [err |-> TRUE, vlt |-> v]
    IN  IF ~val.ok \/ rest # Len(data) + 1 THEN bad
        ELSE IF val.kind = "null"
        THEN [err |-> FALSE, vlt |-> [v EXCEPT !.nilmap = TRUE, !.m = EmptyMap]]
        ELSE IF val.kind = "object"
        THEN IF \E i \in 1..Len(val.members) :
                    val.members[i].kind \notin {"string", "null"}
             THEN bad
             ELSE [err |-> FALSE,
                   vlt |-> [v EXCEPT !.m = StoreMembers(v.m, val.members)]]
        ELSE bad

-----------------------------------------------------------------------------
(* generatePassword and readPassword. *)

\* The number of random bytes of a generated password.
PasswordBytes == 12

\* base64.RawURLEncoding.EncodeToString of three bytes at most: four
\* characters for three bytes, three for two, two for one (no padding).
EncodeGroup(g) ==
    LET b1 == g[1]
        b2 == IF Len(g) >= 2 THEN g[2] ELSE 0
        b3 == IF Len(g) >= 3 THEN g[3] ELSE 0
        n  == b1 * 65536 + b2 * 256 + b3
        cs == << Base64Alphabet[((n \div 262144) % 64) + 1],
                 Base64Alphabet[((n \div 4096) % 64) + 1],
                 Base64Alphabet[((n \div 64) % 64) + 1],
                 Base64Alphabet[(n % 64) + 1] >>
    IN  SubSeq(cs, 1, Len(g) + 1)

RECURSIVE EncodeToString(_)
\* base64.RawURLEncoding.EncodeToString of a sequence of bytes.
EncodeToString(bytes) ==
    IF bytes = <<>> THEN <<>>
    ELSE IF Len(bytes) <= 3 THEN EncodeGroup(bytes)
    ELSE EncodeGroup(SubSeq(bytes, 1, 3))
         \o EncodeToString(SubSeq(bytes, 4, Len(bytes)))

\* What crypto/rand gives one call of rand.Read: the bytes it draws, and how
\* many of them it delivers (fewer than asked for: it returns an error).
RandomDraws ==
    { [bytes |-> [i \in 1..PasswordBytes |-> 255], n |-> PasswordBytes],
      [bytes |-> [i \in 1..PasswordBytes |-> 255], n |-> 0] }

\* generatePassword: a buffer of zero bytes, filled by rand.Read (whose error
\* is not looked at), base64-encoded.
generatePassword(rnd) ==
    EncodeToString([i \in 1..PasswordBytes |->
                      IF i <= rnd.n THEN rnd.bytes[i] ELSE 0])

\* readPassword: the line the scanner reads from standard input.
readPassword(line) == line

-----------------------------------------------------------------------------
(* What the operating system does to one file operation. *)

IOOk == [kind |-> "ok", n |-> 0]

\* The open (or the read) fails: nothing is changed.
IOOpenFail == [kind |-> "openfail", n |-> 0]

\* The file is opened (created, truncated) and the write fails after n bytes.
IOWriteFail(n) == [kind |-> "writefail", n |-> n]

\* The outcomes of writing data to a file.
WriteOutcomes(data) ==
    {IOOk, IOOpenFail}
    \cup {IOWriteFail(n) : n \in 0..(IF Len(data) - 1 < MaxPartial
                                      THEN Len(data) - 1 ELSE MaxPartial)}

\* The outcomes of reading a file.
ReadOutcomes == {IOOk, IOOpenFail}

-----------------------------------------------------------------------------
(* The vault: newVault, openVault, saveVault, set, new, get, rem, lst.      *)
(* Each operator gives what the function returns and, where it touches the  *)
(* file, the file after it.                                                 *)

\* A newVault that writes nothing into the file it creates.
InitialContent_Nothing == <<>>

\* What newVault writes into the file it creates.
InitialContent == <<"{", "}">>

\* newVault opening the file without O_EXCL: an existing file is truncated
\* and written like a new one.
newVault_NoExcl(exists, data, io) ==
    IF io.kind = "openfail"
    THEN [vlt |-> NilVault, err |-> "EIO", exists |-> exists, data |-> data]
    ELSE IF io.kind = "writefail"
    THEN [vlt |-> FreshVault, err |-> "EIO",
          exists |-> TRUE, data |-> SubSeq(<<"{", "}">>, 1, io.n)]
    ELSE [vlt |-> FreshVault, err |-> "nil",
          exists |-> TRUE, data |-> <<"{", "}">>]

\* newVault: open vaultFile with O_WRONLY|O_CREATE|O_EXCL, then write "{}".
\* It returns the fresh vault together with the error of the write.
newVault(exists, data, io) ==
    IF exists
    THEN [vlt |-> NilVault, err |-> "errVaultExists",
          exists |-> exists, data |-> data]
    ELSE IF io.kind = "openfail"
    THEN [vlt |-> NilVault, err |-> "EIO", exists |-> exists, data |-> data]
    ELSE IF io.kind = "writefail"
    THEN [vlt |-> FreshVault, err |-> "EIO",
          exists |-> TRUE, data |-> SubSeq(InitialContent, 1, io.n)]
    ELSE [vlt |-> FreshVault, err |-> "nil",
          exists |-> TRUE, data |-> InitialContent]

\* openVault: read the whole file and unmarshal it into a fresh vault's map.
openVault(exists, data, io) ==
    IF ~exists THEN [vlt |-> NilVault, err |-> "errVaultNotExists"]
    ELSE IF io.kind = "openfail" THEN [vlt |-> NilVault, err |-> "EIO"]
    ELSE LET u == Unmarshal(data, FreshVault)
         IN  IF u.err THEN [vlt |-> NilVault, err |-> "errVaultInvalid"]
             ELSE [vlt |-> u.vlt, err |-> "nil"]

\* saveVault writing without O_TRUNC: what the old content has beyond the
\* bytes written stays in the file.
saveVault_NoTrunc(v, exists, data, io) ==
    LET new  == Marshal(v)
        tail(n) == IF exists /\ Len(data) > n
                   THEN SubSeq(data, n + 1, Len(data)) ELSE <<>>
    IN  IF io.kind = "openfail"
        THEN [err |-> "EIO", exists |-> exists, data |-> data]
        ELSE IF io.kind = "writefail"
        THEN [err |-> "EIO", exists |-> TRUE,
              data |-> SubSeq(new, 1, io.n) \o tail(io.n)]
        ELSE [err |-> "nil", exists |-> TRUE, data |-> new \o tail(Len(new))]

\* saveVault: marshal the map and ioutil.WriteFile it, which opens the file
\* with O_WRONLY|O_CREATE|O_TRUNC and then writes.
saveVault(v, exists, data, io) ==
    LET new == Marshal(v)
    IN  IF io.kind = "openfail"
        THEN [err |-> "EIO", exists |-> exists, data |-> data]
        ELSE IF io.kind = "writefail"
        THEN [err |-> "EIO", exists |-> TRUE, data |-> SubSeq(new, 1, io.n)]
        ELSE [err |-> "nil", exists |-> TRUE, data |-> new]

\* vlt.vlt[name] = value: an assignment to an entry of a nil map panics.
Assign(v, name, value) ==
    IF v.nilmap THEN [vlt |-> v, panic |-> TRUE]
    ELSE [vlt |-> [v EXCEPT !.m = MapPut(v.m, name, value)], panic |-> FALSE]

\* set: under the lock, store the line read from standard input.
set(v, name, line) == Assign(v, name, readPassword(line))

\* new: under the lock, store a generated password.
new(v, name, rnd) == Assign(v, name, generatePassword(rnd))

\* A get that does not look at whether the name is in the map: an absent
\* name gives the empty string and no error.
get_Unchecked(v, name) ==
    IF name \in DOMAIN v.m
    THEN [val |-> v.m[name], err |-> "nil"]
    ELSE [val |-> <<>>, err |-> "nil"]

\* get: under the lock, look the name up.
get(v, name) ==
    IF name \in DOMAIN v.m
    THEN [val |-> v.m[name], err |-> "nil"]
    ELSE [val |-> <<>>, err |-> "errVaultNoSuchValue"]

\* rem: under the lock, delete the name if it is there.
rem(v, name) ==
    IF name \notin DOMAIN v.m
    THEN [vlt |-> v, err |-> "errVaultNoSuchValue"]
    ELSE [vlt |-> [v EXCEPT !.m = MapDelete(v.m, name)], err |-> "nil"]

RECURSIVE Insert(_, _)
\* The sorted sequence seq with s put in its place.
Insert(seq, s) ==
    IF seq = <<>> THEN <<s>>
    ELSE IF StrLess(s, Head(seq)) THEN <<s>> \o seq
    ELSE <<Head(seq)>> \o Insert(Tail(seq), s)

\* No sort: the slice as the range over the map filled it.
SortSlice_None(seq) == seq

RECURSIVE SortSlice(_)
\* sort.Strings on a slice.
SortSlice(seq) ==
    IF seq = <<>> THEN <<>> ELSE Insert(SortSlice(Tail(seq)), Head(seq))

\* The orders in which a range over a map with these keys may visit them.
RangeOrders(keys) ==
    {o \in [1..Cardinality(keys) -> keys] :
        \A i, j \in 1..Cardinality(keys) : i # j => o[i] # o[j]}

\* lst: the names in the order the range over the map visits them (order),
\* then sorted.  It takes no lock.
lst(v, order) == SortSlice(order)

-----------------------------------------------------------------------------
(* Inputs. *)

\* The names given on the command line.
Names == {<<"a", "b">>, <<"b">>}

\* The lines standard input may hold: empty, plain, one with a byte that is
\* not valid UTF-8, one with characters JSON escapes.
Lines == {<<>>, <<"a">>, <<"X">>, <<"\"", "<">>}

\* Files found at vaultFile that no portunus wrote: a JSON string, a number,
\* an array, null, objects with a number, a null and an object as a value,
\* an empty file, a truncated object, and an object of strings laid out with
\* white space.
ForeignFiles ==
    { <<"\"", "b", "\"">>,
      <<"1">>,
      <<"[", "]">>,
      <<"n", "u", "l", "l">>,
      <<"{", "\"", "b", "\"", ":", "1", "}">>,
      <<"{", "\"", "b", "\"", ":", "n", "u", "l", "l", "}">>,
      <<"{", "\"", "b", "\"", ":", "{", "}", "}">>,
      <<>>,
      <<"{", "\"", "b", "\"", ":">>,
      <<"{", " ", "\"", "b", "\"", " ", ":", " ", "\"", "a", "\"", " ", "}">> }

\* The callers of the vault API, one vault each.
Callers == {"c1"}

-----------------------------------------------------------------------------
(* State outside the specification at hand. *)

NoRet == [op |-> "", name |-> <<>>, err |-> "nil", val |-> <<>>]

NoSave == [valid |-> FALSE, v |-> NilVault]

NoProcs == [p \in {} |-> 0]

NoThreads == [t \in {} |-> 0]

InitFile ==
    \/ fileExists = FALSE /\ fileData = <<>>
    \/ fileExists = TRUE /\ fileData \in ForeignFiles

-----------------------------------------------------------------------------
(* The vault API called by one caller after another: specification Spec.    *)

Init ==
    /\ InitFile
    /\ vlt = [c \in Callers |-> NilVault]
    /\ ret = [c \in Callers |-> NoRet]
    /\ pristine = FALSE
    /\ lastSaved = NoSave
    /\ proc = NoProcs
    /\ thr = NoThreads
    /\ lock = ""
    /\ shared = NilVault

\* The history after a call that left the file as (exists, data): a write
\* that changed the file ends what newVault and the last save left there.
FileWritten(exists, data) == exists # fileExists \/ data # fileData

\* c calls newVault().
NewVault(c) ==
    \E io \in WriteOutcomes(InitialContent) :
        LET r == newVault(fileExists, fileData, io)
        IN  /\ fileExists' = r.exists
            /\ fileData' = r.data
            /\ vlt' = [vlt EXCEPT ![c] = r.vlt]
            /\ ret' = [ret EXCEPT ![c] = [op |-> "newVault", name |-> <<>>,
                                          err |-> r.err, val |-> <<>>]]
            /\ pristine' = IF r.err = "nil" THEN TRUE
                           ELSE IF FileWritten(r.exists, r.data) THEN FALSE
                           ELSE pristine
            /\ lastSaved' = IF FileWritten(r.exists, r.data) THEN NoSave
                            ELSE lastSaved
            /\ UNCHANGED <<proc, thr, lock, shared>>

\* c calls openVault().
OpenVault(c) ==
    \E io \in ReadOutcomes :
        LET r == openVault(fileExists, fileData, io)
        IN  /\ vlt' = [vlt EXCEPT ![c] = r.vlt]
            /\ ret' = [ret EXCEPT ![c] = [op |-> "openVault", name |-> <<>>,
                                          err |-> r.err, val |-> <<>>]]
            /\ UNCHANGED <<fileExists, fileData, pristine, lastSaved,
                           proc, thr, lock, shared>>

\* c calls saveVault() on its vault.
SaveVault(c) ==
    /\ ~vlt[c].nil
    /\ \E io \in WriteOutcomes(Marshal(vlt[c])) :
        LET r == saveVault(vlt[c], fileExists, fileData, io)
        IN  /\ fileExists' = r.exists
            /\ fileData' = r.data
            /\ ret' = [ret EXCEPT ![c] = [op |-> "saveVault", name |-> <<>>,
                                          err |-> r.err, val |-> <<>>]]
            /\ pristine' = IF io.kind = "openfail" THEN pristine ELSE FALSE
            /\ lastSaved' = IF r.err = "nil"
                            THEN [valid |-> TRUE, v |-> vlt[c]]
                            ELSE IF io.kind = "openfail" THEN lastSaved
                            ELSE NoSave
            /\ UNCHANGED <<vlt, proc, thr, lock, shared>>

\* A set or new that also writes the vault it leaves to the backing file.
AfterAssign_AutoSync(c, op, name, r) ==
    /\ vlt' = [vlt EXCEPT ![c] = IF r.panic THEN NilVault ELSE r.vlt]
    /\ ret' = [ret EXCEPT ![c] = [op |-> op, name |-> name,
                                  err |-> IF r.panic THEN "panic" ELSE "nil",
                                  val |-> <<>>]]
    /\ fileExists' = TRUE
    /\ fileData' = Marshal(r.vlt)
    /\ UNCHANGED <<pristine, lastSaved, proc, thr, lock, shared>>

\* What c holds and is told after a set or a new: a panic ends the caller's
\* process, and its vault with it.
AfterAssign(c, op, name, r) ==
    /\ vlt' = [vlt EXCEPT ![c] = IF r.panic THEN NilVault ELSE r.vlt]
    /\ ret' = [ret EXCEPT ![c] = [op |-> op, name |-> name,
                                  err |-> IF r.panic THEN "panic" ELSE "nil",
                                  val |-> <<>>]]
    /\ UNCHANGED <<fileExists, fileData, pristine, lastSaved,
                   proc, thr, lock, shared>>

\* c calls set(name), and line is read from standard input.
Set(c) ==
    /\ ~vlt[c].nil
    /\ \E name \in Names, line \in Lines :
        AfterAssign(c, "set", name, set(vlt[c], name, line))

\* c calls new(name).
New(c) ==
    /\ ~vlt[c].nil
    /\ \E name \in Names, rnd \in RandomDraws :
        AfterAssign(c, "new", name, new(vlt[c], name, rnd))

\* c calls get(name).
Get(c) ==
    /\ ~vlt[c].nil
    /\ \E name \in Names :
        LET r == get(vlt[c], name)
        IN  /\ ret' = [ret EXCEPT ![c] = [op |-> "get", name |-> name,
                                          err |-> r.err, val |-> r.val]]
            /\ UNCHANGED <<fileExists, fileData, vlt, pristine, lastSaved,
                           proc, thr, lock, shared>>

\* c calls rem(name).
Rem(c) ==
    /\ ~vlt[c].nil
    /\ \E name \in Names :
        LET r == rem(vlt[c], name)
        IN  /\ vlt' = [vlt EXCEPT ![c] = r.vlt]
            /\ ret' = [ret EXCEPT ![c] = [op |-> "rem", name |-> name,
                                          err |-> r.err, val |-> <<>>]]
            /\ UNCHANGED <<fileExists, fileData, pristine, lastSaved,
                           proc, thr, lock, shared>>

\* c calls lst().
Lst(c) ==
    /\ ~vlt[c].nil
    /\ \E order \in RangeOrders(DOMAIN vlt[c].m) :
        /\ ret' = [ret EXCEPT ![c] = [op |-> "lst", name |-> <<>>,
                                      err |-> "nil",
                                      val |-> lst(vlt[c], order)]]
        /\ UNCHANGED <<fileExists, fileData, vlt, pristine, lastSaved,
                       proc, thr, lock, shared>>

Next ==
    \E c \in Callers :
        \/ NewVault(c)
        \/ OpenVault(c)
        \/ SaveVault(c)
        \/ Set(c)
        \/ New(c)
        \/ Get(c)
        \/ Rem(c)
        \/ Lst(c)

Spec == Init /\ [][Next]_vars

-----------------------------------------------------------------------------
(* The program: main, run by one process per invocation.                    *)
(*                                                                          *)
(* A process is at "start" (main not yet entered), "opened" (main has       *)
(* passed its openVault and is at the switch), "mutated" (set or new has    *)
(* returned and saveVault is next) or "exited".  It keeps os.Args (argc,    *)
(* cmd, name), the error of main's openVault (err), the vault as opened     *)
(* and the value set or new stored, how many saves it saw done when it      *)
(* opened and which save in order its own was, and what the process left    *)
(* behind: exit status (2: a Go panic), standard error, standard output.    *)

IdleProc ==
    [pc |-> "idle", argc |-> 1, cmd |-> "", name |-> <<>>, err |-> "nil",
     opened |-> NilVault, value |-> <<>>, seen |-> 0, saved |-> 0,
     status |-> 0, stderr |-> "", stdout |-> <<>>]

\* The command lines: no subcommand, each subcommand alone, and set, new
\* and get with a name.
MainArgs ==
    {[argc |-> 1, cmd |-> "", name |-> <<>>]}
    \cup {[argc |-> 2, cmd |-> c, name |-> <<>>] :
             c \in {"vlt", "set", "new", "get", "lst", "gen", "help"}}
    \cup {[argc |-> 3, cmd |-> c, name |-> n] :
             c \in {"set", "new", "get"}, n \in Names}

\* The process as a run with these arguments begins.
Started(args) ==
    [IdleProc EXCEPT !.pc = "start", !.argc = args.argc, !.cmd = args.cmd,
                     !.name = args.name]

\* os.Exit(status), or the return from main (status 0).
Exit(pr, status, stderr, stdout) ==
    [pr EXCEPT !.pc = "exited", !.status = status, !.stderr = stderr,
               !.stdout = stdout]

\* chk(err) as the last statement of a subcommand: a non-nil error is
\* printed to standard error and the process exits with status 1; otherwise
\* main returns, having printed stdout.
chk(pr, err, stdout) ==
    IF err # "nil" THEN Exit(pr, 1, err, <<>>) ELSE Exit(pr, 0, "", stdout)

\* A run-time panic: the process dies with status 2.
Panic(pr) == Exit(pr, 2, "panic", <<>>)

\* How many saves have been done.
SavesDone == Cardinality({q \in DOMAIN proc : proc[q].saved > 0})

\* The process p moves to pr holding the vault v; the file becomes
\* (exists, data).
MainStep(p, pr, v, exists, data) ==
    /\ proc' = [proc EXCEPT ![p] = pr]
    /\ vlt' = [vlt EXCEPT ![p] = IF pr.pc = "exited" THEN NilVault ELSE v]
    /\ fileExists' = exists
    /\ fileData' = data
    /\ UNCHANGED <<ret, pristine, thr, lock, shared>>

\* A process is started with a command line.
Exec(p) ==
    /\ proc[p].pc \in {"idle", "exited"}
    /\ \E args \in MainArgs :
        MainStep(p, Started(args), NilVault, fileExists, fileData)
    /\ UNCHANGED lastSaved

\* main up to the switch: the argument count, then openVault, whose error
\* ends every subcommand but new.
MainOpen(p) ==
    /\ proc[p].pc = "start"
    /\ \E io \in ReadOutcomes :
        LET pr == proc[p]
            r  == openVault(fileExists, fileData, io)
            at == [pr EXCEPT !.err = r.err, !.opened = r.vlt,
                             !.seen = SavesDone]
        IN  MainStep(p,
                     IF pr.argc < 2 THEN Exit(pr, 1, "errBadArgs", <<>>)
                     ELSE IF r.err # "nil" /\ pr.cmd # "new"
                     THEN Exit(at, 1, r.err, <<>>)
                     ELSE [at EXCEPT !.pc = "opened"],
                     r.vlt, fileExists, fileData)
    /\ UNCHANGED lastSaved

\* case "vlt": newVault, and chk of its error.
CmdVlt(p) ==
    /\ proc[p].pc = "opened"
    /\ proc[p].cmd = "vlt"
    /\ \E io \in WriteOutcomes(InitialContent) :
        LET r == newVault(fileExists, fileData, io)
        IN  /\ MainStep(p, chk(proc[p], r.err, <<>>), r.vlt, r.exists, r.data)
            /\ lastSaved' = IF FileWritten(r.exists, r.data) THEN NoSave
                            ELSE lastSaved

\* What a mutating subcommand comes to before its saveVault: the usage
\* error for a wrong argument count, a panic for a call on a nil *vault or
\* an assignment to a nil map, or the vault with the value stored.
Mutated(pr, v, usage, r, value) ==
    IF pr.argc # 3 THEN Exit(pr, 1, usage, <<>>)
    ELSE IF v.nil \/ r.panic THEN Panic(pr)
    ELSE [pr EXCEPT !.pc = "mutated", !.value = value]

\* case "set": vlt.set(name), which reads the line from standard input.
CmdSet(p) ==
    /\ proc[p].pc = "opened"
    /\ proc[p].cmd = "set"
    /\ \E line \in Lines :
        LET r == set(vlt[p], proc[p].name, line)
        IN  MainStep(p, Mutated(proc[p], vlt[p], "errBadArgsSet", r, line),
                     r.vlt, fileExists, fileData)
    /\ UNCHANGED lastSaved

\* case "new": vlt.new(name), which generates the password.
CmdNew(p) ==
    /\ proc[p].pc = "opened"
    /\ proc[p].cmd = "new"
    /\ \E rnd \in RandomDraws :
        LET r == new(vlt[p], proc[p].name, rnd)
        IN  MainStep(p, Mutated(proc[p], vlt[p], "errBadArgsNew", r,
                                generatePassword(rnd)),
                     r.vlt, fileExists, fileData)
    /\ UNCHANGED lastSaved

\* chk(vlt.saveVault()), which ends set and new.
MainSave(p) ==
    /\ proc[p].pc = "mutated"
    /\ \E io \in WriteOutcomes(Marshal(vlt[p])) :
        LET r  == saveVault(vlt[p], fileExists, fileData, io)
            pr == IF io.kind = "ok"
                  THEN [proc[p] EXCEPT !.saved = SavesDone + 1]
                  ELSE proc[p]
        IN  /\ MainStep(p, chk(pr, r.err, <<>>), vlt[p], r.exists, r.data)
            /\ lastSaved' = IF r.err = "nil"
                            THEN [valid |-> TRUE, v |-> vlt[p]]
                            ELSE IF io.kind = "openfail" THEN lastSaved
                            ELSE NoSave

\* case "get": the usage error, or vlt.get(name), chk of its error, and the
\* password printed.
CmdGet(p) ==
    /\ proc[p].pc = "opened"
    /\ proc[p].cmd = "get"
    /\ LET pr == proc[p]
           r  == get(vlt[p], pr.name)
       IN  MainStep(p,
                    IF pr.argc # 3 THEN Exit(pr, 1, "errBadArgsGet", <<>>)
                    ELSE chk(pr, r.err, <<r.val>>),
                    vlt[p], fileExists, fileData)
    /\ UNCHANGED lastSaved

\* case "lst": every name of vlt.lst() printed.
CmdLst(p) ==
    /\ proc[p].pc = "opened"
    /\ proc[p].cmd = "lst"
    /\ \E order \in RangeOrders(DOMAIN vlt[p].m) :
        MainStep(p, Exit(proc[p], 0, "", lst(vlt[p], order)),
                 vlt[p], fileExists, fileData)
    /\ UNCHANGED lastSaved

\* case "gen": a generated password printed.
CmdGen(p) ==
    /\ proc[p].pc = "opened"
    /\ proc[p].cmd = "gen"
    /\ \E rnd \in RandomDraws :
        MainStep(p, Exit(proc[p], 0, "", <<generatePassword(rnd)>>),
                 vlt[p], fileExists, fileData)
    /\ UNCHANGED lastSaved

\* default: chk(errBadArgs).
CmdDefault(p) ==
    /\ proc[p].pc = "opened"
    /\ proc[p].cmd \notin {"vlt", "set", "new", "get", "lst", "gen"}
    /\ MainStep(p, Exit(proc[p], 1, "errBadArgs", <<>>),
                vlt[p], fileExists, fileData)
    /\ UNCHANGED lastSaved

\* main from the switch on.
MainCommand(p) ==
    \/ CmdVlt(p)
    \/ CmdSet(p)
    \/ CmdNew(p)
    \/ CmdGet(p)
    \/ CmdLst(p)
    \/ CmdGen(p)
    \/ CmdDefault(p)

(* One invocation after another: specification SpecMain. *)

MainProcs == {"p1"}

\* The files a run may find at vaultFile: those of ForeignFiles, and an
\* empty vault.
VaultFiles == ForeignFiles \cup {InitialContent}

InitMain ==
    /\ \/ fileExists = FALSE /\ fileData = <<>>
       \/ fileExists = TRUE /\ fileData \in VaultFiles
    /\ vlt = [p \in MainProcs |-> NilVault]
    /\ proc = [p \in MainProcs |-> IdleProc]
    /\ ret = NoProcs
    /\ pristine = FALSE
    /\ lastSaved = NoSave
    /\ thr = NoThreads
    /\ lock = ""
    /\ shared = NilVault

NextMain ==
    \E p \in MainProcs :
        \/ Exec(p)
        \/ MainOpen(p)
        \/ MainCommand(p)
        \/ MainSave(p)

SpecMain == InitMain /\ [][NextMain]_vars

(* Two invocations at once, each setting or generating one entry:          *)
(* specification SpecRace.                                                  *)

RaceProcs == {"p1", "p2"}

RaceArgs ==
    {[argc |-> 3, cmd |-> c, name |-> n] : c \in {"set", "new"}, n \in Names}

\* The vaults the two invocations may find: an empty one, and one holding
\* an entry.
RaceFiles ==
    { InitialContent,
      <<"{", " ", "\"", "b", "\"", " ", ":", " ", "\"", "a", "\"", " ", "}">> }

InitRace ==
    /\ fileExists = TRUE
    /\ fileData \in RaceFiles
    /\ vlt = [p \in RaceProcs |-> NilVault]
    /\ proc \in [RaceProcs -> {Started(a) : a \in RaceArgs}]
    /\ ret = NoProcs
    /\ pristine = FALSE
    /\ lastSaved = NoSave
    /\ thr = NoThreads
    /\ lock = ""
    /\ shared = NilVault

NextRace ==
    \E p \in RaceProcs :
        \/ MainOpen(p)
        \/ CmdSet(p)
        \/ CmdNew(p)
        \/ MainSave(p)

SpecRace == InitRace /\ [][NextRace]_vars

-----------------------------------------------------------------------------
(* Several threads calling the methods of one vault: specification          *)
(* SpecThreads.                                                             *)
(*                                                                          *)
(* A thread is "idle", at "lock" (in vlt.lock.Lock(), waiting), at "enter"  *)
(* (about to touch vlt.vlt), in "access" (reading, ranging over or writing  *)
(* vlt.vlt), at "unlock" (at the deferred Unlock), at "return" or          *)
(* "crashed".  raced is set when its access has overlapped a write of the   *)
(* map by another thread (a data race): the Go runtime may then end the     *)
(* process with a fatal error, or the access sees the map as it was before  *)
(* or after the write.                                                      *)

Threads == {"t1", "t2"}

IdleThread ==
    [pc |-> "idle", op |-> "", name |-> <<>>, value |-> <<>>,
     before |-> NilVault, raced |-> FALSE, err |-> "nil", val |-> <<>>]

\* The methods that take vlt.lock: set, new, get and rem do, lst and
\* saveVault do not.
TakesLock(op) == op \in {"set", "new", "get", "rem"}

\* The calls that write vlt.vlt: set and new assign, rem deletes a name
\* that is there.
WritesMap(th) ==
    \/ th.op \in {"set", "new"}
    \/ th.op = "rem" /\ th.name \in DOMAIN shared.m

\* The calls the threads make, all on one name: set with a line, new with a
\* generated password, get, rem, lst and saveVault.
ThreadCalls ==
    {[op |-> "set", name |-> <<"b">>, value |-> <<"a">>]}
    \cup {[op |-> "new", name |-> <<"b">>, value |-> generatePassword(r)] :
             r \in RandomDraws}
    \cup {[op |-> o, name |-> <<"b">>, value |-> <<>>] : o \in {"get", "rem"}}
    \cup {[op |-> o, name |-> <<>>, value |-> <<>>] : o \in {"lst", "saveVault"}}

InitThreads ==
    /\ fileExists = TRUE
    /\ fileData = InitialContent
    /\ shared = FreshVault
    /\ lock = ""
    /\ thr = [t \in Threads |-> IdleThread]
    /\ vlt = NoProcs
    /\ ret = NoProcs
    /\ proc = NoProcs
    /\ pristine = TRUE
    /\ lastSaved = NoSave

\* t calls a method of the shared vault.
Call(t) ==
    /\ thr[t].pc = "idle"
    /\ \E call \in ThreadCalls :
        thr' = [thr EXCEPT ![t] =
                  [IdleThread EXCEPT
                      !.pc = IF TakesLock(call.op) THEN "lock" ELSE "enter",
                      !.op = call.op, !.name = call.name,
                      !.value = call.value]]
    /\ UNCHANGED <<fileExists, fileData, vlt, ret, pristine, lastSaved,
                   proc, lock, shared>>

\* vlt.lock.Lock() returns in t: the mutex was free.
Acquire(t) ==
    /\ thr[t].pc = "lock"
    /\ lock = ""
    /\ lock' = t
    /\ thr' = [thr EXCEPT ![t].pc = "enter"]
    /\ UNCHANGED <<fileExists, fileData, vlt, ret, pristine, lastSaved,
                   proc, shared>>

\* t starts to touch vlt.vlt.  A method that holds no lock may find the map
\* changed under it, and so has the map as it was at this point to see.
Begin(t) ==
    /\ thr[t].pc = "enter"
    /\ thr' = [thr EXCEPT
                 ![t].pc = "access",
                 ![t].before = IF TakesLock(thr[t].op) THEN NilVault
                               ELSE shared,
                 ![t].raced = \E u \in Threads \ {t} :
                                  thr[u].pc = "access" /\ WritesMap(thr[u])]
    /\ UNCHANGED <<fileExists, fileData, vlt, ret, pristine, lastSaved,
                   proc, lock, shared>>

\* The threads after t's access ends with (err, val): t goes on to its
\* return, and every other thread inside an access has raced if t wrote the
\* map.
Ended(t, err, val) ==
    [u \in Threads |->
        IF u = t
        THEN [thr[t] EXCEPT !.pc = IF TakesLock(thr[t].op) THEN "unlock"
                                   ELSE "return",
                            !.before = NilVault, !.err = err, !.val = val]
        ELSE IF thr[u].pc = "access" /\ WritesMap(thr[t])
        THEN [thr[u] EXCEPT !.raced = TRUE]
        ELSE thr[u]]

\* The maps an access of t may see: the map as it is, and after a race also
\* the map as it was when the access began.
Seen(t) == {shared} \cup (IF thr[t].raced THEN {thr[t].before} ELSE {})

\* t's access ends: the method does to the map, or reads from it, what it
\* does; saveVault then writes the file.
End(t) ==
    /\ thr[t].pc = "access"
    /\ LET th == thr[t]
       IN  \/ /\ th.op \in {"set", "new"}
              /\ shared' = Assign(shared, th.name, th.value).vlt
              /\ thr' = Ended(t, "nil", <<>>)
              /\ UNCHANGED <<fileExists, fileData>>
           \/ /\ th.op = "rem"
              /\ shared' = rem(shared, th.name).vlt
              /\ thr' = Ended(t, rem(shared, th.name).err, <<>>)
              /\ UNCHANGED <<fileExists, fileData>>
           \/ /\ th.op = "get"
              /\ thr' = Ended(t, get(shared, th.name).err,
                              get(shared, th.name).val)
              /\ UNCHANGED <<fileExists, fileData, shared>>
           \/ /\ th.op = "lst"
              /\ \E v \in Seen(t) : \E order \in RangeOrders(DOMAIN v.m) :
                    thr' = Ended(t, "nil", lst(v, order))
              /\ UNCHANGED <<fileExists, fileData, shared>>
           \/ /\ th.op = "saveVault"
              /\ \E v \in Seen(t) : \E io \in WriteOutcomes(Marshal(v)) :
                    LET r == saveVault(v, fileExists, fileData, io)
                    IN  /\ fileExists' = r.exists
                        /\ fileData' = r.data
                        /\ thr' = Ended(t, r.err, <<>>)
              /\ UNCHANGED shared
    /\ UNCHANGED <<vlt, ret, pristine, lastSaved, proc, lock>>

\* The runtime finds the map read and written at once and ends the process
\* with a fatal error.
Fatal(t) ==
    /\ thr[t].pc = "access"
    /\ thr[t].raced
    /\ thr' = [u \in Threads |-> [IdleThread EXCEPT !.pc = "crashed"]]
    /\ UNCHANGED <<fileExists, fileData, vlt, ret, pristine, lastSaved,
                   proc, lock, shared>>

\* The deferred vlt.lock.Unlock() runs in t and the method returns.
Release(t) ==
    /\ thr[t].pc = "unlock"
    /\ lock' = ""
    /\ thr' = [thr EXCEPT ![t] = IdleThread]
    /\ UNCHANGED <<fileExists, fileData, vlt, ret, pristine, lastSaved,
                   proc, shared>>

\* lst or saveVault returns in t.
Return(t) ==
    /\ thr[t].pc = "return"
    /\ thr' = [thr EXCEPT ![t] = IdleThread]
    /\ UNCHANGED <<fileExists, fileData, vlt, ret, pristine, lastSaved,
                   proc, lock, shared>>

NextThreads ==
    \E t \in Threads :
        \/ Call(t)
        \/ Acquire(t)
        \/ Begin(t)
        \/ End(t)
        \/ Fatal(t)
        \/ Release(t)
        \/ Return(t)

SpecThreads == InitThreads /\ [][NextThreads]_vars

-----------------------------------------------------------------------------
(* Properties of the vault API, checked under Spec. *)

\* C2: create is exclusive.  Whenever newVault is called while the backing
\* file exists, whatever it holds, the call returns errVaultExists and no
\* vault, and the file is afterwards what it was before.
C2_CreateIsExclusive ==
    [][\A c \in Callers :
          (fileExists /\ NewVault(c))
          => /\ ret'[c].err = "errVaultExists"
             /\ vlt'[c] = NilVault
             /\ fileExists'
             /\ fileData' = fileData]_vars

\* C2's case: newVault has just been refused on a file that is not what a
\* newVault would have written, and that file is still there.
C2_Witness ==
    \E c \in Callers :
        /\ ret[c].op = "newVault"
        /\ ret[c].err = "errVaultExists"
        /\ fileExists
        /\ fileData = <<"n", "u", "l", "l">>

\* The files of the model that are not a JSON object of strings, as C6
\* lists them: a top-level string, number, array and null, an object with a
\* number, a null and an object as a value, the empty file, truncated text.
NotStringObjects ==
    { <<"\"", "b", "\"">>,
      <<"1">>,
      <<"[", "]">>,
      <<"n", "u", "l", "l">>,
      <<"{", "\"", "b", "\"", ":", "1", "}">>,
      <<"{", "\"", "b", "\"", ":", "n", "u", "l", "l", "}">>,
      <<"{", "\"", "b", "\"", ":", "{", "}", "}">>,
      <<>>,
      <<"{", "\"", "b", "\"", ":">> }

\* C3: set/get round trip across persistence.  When saveVault succeeded on
\* a vault and the file has not been written since, an openVault that reads
\* the file succeeds, and get on the vault it returns gives, for every name
\* of the saved vault (the name last set, and every other), exactly the
\* value saved under it.
C3_SetGetRoundTrip ==
    [][\A c \in Callers :
          ( /\ lastSaved.valid
            /\ ret'[c].err # "EIO"
            /\ OpenVault(c) )
          => /\ ret'[c].err = "nil"
             /\ \A n \in DOMAIN lastSaved.v.m :
                   get(vlt'[c], n) = [val |-> lastSaved.v.m[n], err |-> "nil"]]_vars

\* C4: a failed saveVault changes nothing.  Whenever saveVault returns an
\* error, the vault in memory is what it was and the backing file exists or
\* not, and holds, what it did before the call.
C4_FailedSaveChangesNothing ==
    [][\A c \in Callers :
          (ret'[c].err # "nil" /\ SaveVault(c))
          => /\ vlt'[c] = vlt[c]
             /\ fileExists' = fileExists
             /\ fileData' = fileData]_vars

\* C6: whenever openVault reads a backing file that is not a JSON object of
\* strings, it returns errVaultInvalid and no vault.
C6_MalformedFileIsInvalid ==
    [][\A c \in Callers :
          ( /\ fileExists
            /\ fileData \in NotStringObjects
            /\ ret'[c].err # "EIO"
            /\ OpenVault(c) )
          => /\ ret'[c].err = "errVaultInvalid"
             /\ vlt'[c] = NilVault]_vars

\* C9: create-then-open round trip.  While the backing file is as a
\* successful newVault left it, an openVault that reads the file succeeds
\* and returns a vault with an empty map: lst returns no name and get fails
\* for every name.
C9_CreateThenOpen ==
    [][\A c \in Callers :
          (pristine /\ ret'[c].err # "EIO" /\ OpenVault(c))
          => /\ ret'[c].err = "nil"
             /\ ~vlt'[c].nil
             /\ ~vlt'[c].nilmap
             /\ DOMAIN vlt'[c].m = {}
             /\ \A o \in RangeOrders(DOMAIN vlt'[c].m) : lst(vlt'[c], o) = <<>>
             /\ \A n \in Names : get(vlt'[c], n).err = "errVaultNoSuchValue"]_vars

\* C9's case: the file is as newVault created it and openVault has just
\* returned a vault read from it.
C9_Witness ==
    \E c \in Callers :
        /\ pristine
        /\ ret[c].op = "openVault"
        /\ ret[c].err = "nil"
        /\ ~vlt[c].nil

\* C10: saveVault replaces the file in full.  When saveVault succeeded and
\* the file has not been written since, an openVault that reads the file
\* succeeds and returns a vault whose map is the saved one: the same names,
\* none more (an entry removed before the save is not in it), each with its
\* saved value.
C10_SaveReplacesInFull ==
    [][\A c \in Callers :
          (lastSaved.valid /\ ret'[c].err # "EIO" /\ OpenVault(c))
          => /\ ret'[c].err = "nil"
             /\ DOMAIN vlt'[c].m = DOMAIN lastSaved.v.m
             /\ \A n \in DOMAIN lastSaved.v.m :
                   vlt'[c].m[n] = lastSaved.v.m[n]]_vars

\* C11: the vault is not auto-synced.  A call of set, new, rem, get or lst
\* leaves the backing file as it was; a step that changes the file is a
\* call of newVault or saveVault; and an openVault that reads the file of
\* the last successful saveVault returns what that save wrote, whatever has
\* been set, generated or removed in memory since.
C11_NotAutoSynced ==
    [][\A c \in Callers :
          /\ ret'[c].op \in {"set", "new", "rem", "get", "lst"}
                => fileExists' = fileExists /\ fileData' = fileData
          /\ (fileExists' # fileExists \/ fileData' # fileData)
                => ret'[c].op \in {"newVault", "saveVault"}
          /\ ( /\ lastSaved.valid
                /\ ret'[c].op = "openVault"
                /\ ret'[c].err = "nil"
                /\ OpenVault(c) )
                => vlt'[c] = Unmarshal(Marshal(lastSaved.v), FreshVault).vlt]_vars

\* C11's case: a set, new or rem has just changed the vault in memory since
\* its last save, and the backing file is still what that save wrote.
C11_Witness ==
    \E c \in Callers :
        /\ ret[c].op \in {"set", "new", "rem"}
        /\ ret[c].err = "nil"
        /\ lastSaved.valid
        /\ vlt[c].m # lastSaved.v.m
        /\ fileExists
        /\ fileData = Marshal(lastSaved.v)

\* C12: overwrite semantics.  Whenever set(N) with the line V2 is called
\* right after a set(N), the vault holds afterwards one entry for N, with
\* the value V2; it has the names it had before the second call, as many,
\* and every entry under another name has the value it had.
C12_Overwrite ==
    [][\A c \in Callers : \A name \in Names : \A line \in Lines :
          ( /\ ret[c].op = "set"
            /\ ret[c].err = "nil"
            /\ ret[c].name = name
            /\ ret'[c].op = "set"
            /\ AfterAssign(c, "set", name, set(vlt[c], name, line)) )
          => /\ ret'[c].err = "nil"
             /\ name \in DOMAIN vlt'[c].m
             /\ vlt'[c].m[name] = line
             /\ DOMAIN vlt'[c].m = DOMAIN vlt[c].m
             /\ Cardinality(DOMAIN vlt'[c].m) = Cardinality(DOMAIN vlt[c].m)
             /\ \A n \in DOMAIN vlt[c].m \ {name} :
                   vlt'[c].m[n] = vlt[c].m[n]]_vars

\* C12's case: set has just stored a value under a name that the last save
\* holds with another value, next to an entry under another name that is
\* as it was saved.
C12_Witness ==
    \E c \in Callers :
        /\ ret[c].op = "set"
        /\ ret[c].err = "nil"
        /\ ret[c].name = <<"b">>
        /\ lastSaved.valid
        /\ DOMAIN lastSaved.v.m = Names
        /\ DOMAIN vlt[c].m = Names
        /\ vlt[c].m[<<"b">>] # lastSaved.v.m[<<"b">>]
        /\ vlt[c].m[<<"a", "b">>] = lastSaved.v.m[<<"a", "b">>]

\* C13: whenever get(N) is called, the vault in memory is afterwards what it
\* was; if N is not in the map the call returns errVaultNoSuchValue, and if
\* N is in the map it returns no error and the value stored under N.
C13_Get ==
    [][\A c \in Callers : \A name \in Names :
          (ret'[c].op = "get" /\ ret'[c].name = name)
          => /\ vlt'[c] = vlt[c]
             /\ name \notin DOMAIN vlt[c].m
                   => ret'[c].err = "errVaultNoSuchValue"
             /\ name \in DOMAIN vlt[c].m
                   => /\ ret'[c].err = "nil"
                      /\ ret'[c].val = vlt[c].m[name]]_vars

\* C13's case: get has just failed for a name that is not in a vault that
\* holds an entry under another name.
C13_Witness ==
    \E c \in Callers :
        /\ ret[c].op = "get"
        /\ ret[c].err = "errVaultNoSuchValue"
        /\ ret[c].name \notin DOMAIN vlt[c].m
        /\ DOMAIN vlt[c].m # {}

\* C14: whenever rem(N) is called with N not in the map, it returns
\* errVaultNoSuchValue and the vault and the backing file are what they
\* were; whenever it is called with N in the map, it returns no error and
\* the map is afterwards the map before without N: every other name is in
\* it with the value it had.
C14_Remove ==
    [][\A c \in Callers : \A name \in Names :
          (ret'[c].op = "rem" /\ ret'[c].name = name)
          => /\ name \notin DOMAIN vlt[c].m
                   => /\ ret'[c].err = "errVaultNoSuchValue"
                      /\ vlt'[c] = vlt[c]
                      /\ fileExists' = fileExists
                      /\ fileData' = fileData
             /\ name \in DOMAIN vlt[c].m
                   => /\ ret'[c].err = "nil"
                      /\ DOMAIN vlt'[c].m = DOMAIN vlt[c].m \ {name}
                      /\ \A n \in DOMAIN vlt[c].m \ {name} :
                            vlt'[c].m[n] = vlt[c].m[n]]_vars

\* C14's case: rem has just deleted a name from a vault, and an entry under
\* another name is still there.
C14_Witness ==
    \E c \in Callers :
        /\ ret[c].op = "rem"
        /\ ret[c].err = "nil"
        /\ ret[c].name \notin DOMAIN vlt[c].m
        /\ DOMAIN vlt[c].m # {}

\* C15: whenever lst is called, the vault is afterwards what it was, and the
\* slice returned holds the names of the map, each once, in ascending
\* order, in whatever order the range over the map visited them: with both
\* names of the model in the map, "ab" comes before "b".
C15_ListNames ==
    [][\A c \in Callers :
          ret'[c].op = "lst"
          => LET names == ret'[c].val
             IN  /\ vlt'[c] = vlt[c]
                 /\ ret'[c].err = "nil"
                 /\ Len(names) = Cardinality(DOMAIN vlt[c].m)
                 /\ {names[i] : i \in 1..Len(names)} = DOMAIN vlt[c].m
                 /\ \A i, j \in 1..Len(names) :
                       i < j => StrLess(names[i], names[j])
                 /\ DOMAIN vlt[c].m = Names
                       => names = << <<"a", "b">>, <<"b">> >>]_vars

\* C15's case: lst has just returned the two names of a vault that holds
\* both.
C15_Witness ==
    \E c \in Callers :
        /\ ret[c].op = "lst"
        /\ DOMAIN vlt[c].m = Names
        /\ ret[c].val = << <<"a", "b">>, <<"b">> >>

\* C16: an entropy failure is fatal.  Whenever new(N) is called and
\* rand.Read delivers fewer bytes than asked for (it returns an error), the
\* call does not return normally and the map is left as it was: no password
\* made of bytes that rand.Read did not fill is stored.
C16_EntropyFailureIsFatal ==
    [][\A c \in Callers : \A name \in Names : \A rnd \in RandomDraws :
          ( /\ rnd.n < PasswordBytes
            /\ ret'[c].op = "new"
            /\ AfterAssign(c, "new", name, new(vlt[c], name, rnd)) )
          => /\ ret'[c].err # "nil"
             /\ vlt'[c].m = vlt[c].m \/ vlt'[c] = NilVault]_vars

\* C17: newVault does not partially complete.  Whenever newVault is called
\* with no backing file, the file exists afterwards only if the call
\* returned no error, and then it holds {}; if the call returned an error
\* there is still no backing file.
C17_CreateNotPartial ==
    [][\A c \in Callers :
          (~fileExists /\ ret'[c].op = "newVault")
          => /\ fileExists' => (ret'[c].err = "nil" /\ fileData' = InitialContent)
             /\ ret'[c].err # "nil" => ~fileExists']_vars

\* C20: every vault that openVault or newVault has returned with no error
\* has a map that is not nil, and no set or new has ended in a panic.
C20_MapInitialized ==
    \A c \in DOMAIN ret :
        /\ (ret[c].op \in {"openVault", "newVault"} /\ ret[c].err = "nil")
              => (~vlt[c].nil /\ ~vlt[c].nilmap)
        /\ ret[c].err # "panic"

-----------------------------------------------------------------------------
(* Properties of the program, checked under SpecMain. *)

\* C1: whenever `vlt` has run and found no backing file, the process has
\* exited with status 0 and the backing file exists and holds {}.
C1_VltCreatesVault ==
    \A p \in DOMAIN proc :
        ( /\ proc[p].pc = "exited"
          /\ proc[p].cmd = "vlt"
          /\ proc[p].err = "errVaultNotExists" )
        => /\ proc[p].status = 0
           /\ fileExists
           /\ fileData = InitialContent

\* C8: whenever set NAME, new NAME, get NAME or lst has run and found no
\* backing file, the process has exited with status 1 (it did not panic),
\* having printed errVaultNotExists, and there is still no backing file.
C8_AbsentFileIsReported ==
    \A p \in DOMAIN proc :
        ( /\ proc[p].pc = "exited"
          /\ \/ proc[p].cmd \in {"set", "new", "get"} /\ proc[p].argc = 3
             \/ proc[p].cmd = "lst" /\ proc[p].argc = 2
          /\ proc[p].err = "errVaultNotExists" )
        => /\ proc[p].status = 1
           /\ proc[p].stderr = "errVaultNotExists"
           /\ ~fileExists

\* C18: every mutating subcommand persists before exiting.  Whenever
\* `set NAME` or `new NAME` has exited with status 0, the backing file
\* holds under NAME the value the run stored (the line read, or the
\* generated password) and, under every other name of the vault the run
\* opened, the value it held then.
C18_MutationsPersist ==
    \A p \in DOMAIN proc :
        ( /\ proc[p].pc = "exited"
          /\ proc[p].cmd \in {"set", "new"}
          /\ proc[p].argc = 3
          /\ proc[p].status = 0 )
        => /\ fileExists
           /\ LET file == Unmarshal(fileData, FreshVault).vlt.m
              IN  /\ proc[p].name \in DOMAIN file
                  /\ file[proc[p].name] = proc[p].value
                  /\ \A n \in DOMAIN proc[p].opened.m \ {proc[p].name} :
                        n \in DOMAIN file /\ file[n] = proc[p].opened.m[n]

\* C19: gen depends on no vault.  Whenever a run of `gen` exits, whatever
\* the backing file is (absent, a vault, or malformed), it exits with
\* status 0 having printed one generated password of 16 characters, and
\* the backing file is what it was.
C19_GenNeedsNoVault ==
    [][\A p \in DOMAIN proc :
          ( /\ proc[p].cmd = "gen"
            /\ proc[p].pc # "exited"
            /\ proc'[p].pc = "exited" )
          => /\ proc'[p].status = 0
             /\ Len(proc'[p].stdout) = 1
             /\ Len(proc'[p].stdout[1]) = 16
             /\ fileExists' = fileExists
             /\ fileData' = fileData]_vars

-----------------------------------------------------------------------------
(* Properties of two invocations at once, checked under SpecRace. *)

\* p and q both opened before either saved, p's save was done first and q's
\* second, and both have exited.
Raced(p, q) ==
    /\ p # q
    /\ proc[p].pc = "exited" /\ proc[q].pc = "exited"
    /\ proc[p].seen = 0 /\ proc[q].seen = 0
    /\ proc[p].saved = 1 /\ proc[q].saved = 2

\* The vault in q's memory when it saved: what it opened, with the entry it
\* stored.
SavedBy(q) ==
    [proc[q].opened EXCEPT
        !.m = MapPut(proc[q].opened.m, proc[q].name, proc[q].value)]

\* The map the backing file stands for.
FileMap == Unmarshal(fileData, FreshVault).vlt.m

\* p's entry, as it stored it, is in the backing file.
InFile(p) ==
    /\ proc[p].name \in DOMAIN FileMap
    /\ FileMap[proc[p].name] = proc[p].value

-----------------------------------------------------------------------------
(* Properties of threads sharing a vault, checked under SpecThreads. *)

\* C5: the operations on one vault are mutually exclusive.  No thread is
\* reading or ranging over vlt.vlt, or writing it, while another thread is
\* writing it.
C5_MutualExclusion ==
    \A t, u \in DOMAIN thr :
        (t # u /\ thr[t].pc = "access" /\ WritesMap(thr[t]))
        => thr[u].pc # "access"

=============================================================================
